---- MODULE Spec2Model ----
(***************************************************************************)
(* Model of the `shared!` macro of src/src/lib.rs, for ONE shared item     *)
(* ($NAME, $dat_ty, $int) on a single-core Cortex-M.                       *)
(*                                                                         *)
(* State: the item's static storage (singletons::$NAME), its re-entrancy   *)
(* flag (flags::$NAME), the NVIC bits of the bound line (ISER = enabled,   *)
(* IABR = active), the number of tokens ($NAME values) handed out, and the *)
(* call stack of the single core.  The frame on top of the stack is the    *)
(* one that executes; the bound handler preempts thread-mode code between  *)
(* any two statements whenever its line is enabled and not active.         *)
(*                                                                         *)
(* The three methods are translated statement by statement; a closure `f`  *)
(* is user code: it reads the value when it starts, may itself call the    *)
(* methods, and writes its result when it ends.                            *)
(***************************************************************************)
EXTENDS Integers, Sequences, FiniteSets

VARIABLES singleton, flag, iser, iabr, tokens, stack, ret, expected, panicked

vars == <<singleton, flag, iser, iabr, tokens, stack, ret, expected, panicked>>

(* ------------------------------ bounds --------------------------------- *)

\* $dat_ty is modelled as the integers modulo ValMod.
ValMod == 3

\* Closures are x -> x + d (wrapping) for d in 1..MaxDelta.
MaxDelta == 2

\* Deepest call stack explored; the methods themselves never nest deeper
\* than 4 (preempted call, handler, modify_int_context closure, nested call).
MaxDepth == 4

Val == 0 .. (ValMod - 1)

Deltas == 1 .. MaxDelta

(* ------------------------------ helpers -------------------------------- *)

\* Option<$dat_ty>: None is the empty sequence, Some(v) is <<v>>.
None == << >>

Some(v) == <<v>>

\* The closure passed to modify_*: `*x += d; x` on a wrapping integer.
Apply(d, x) == (x + d) % ValMod

\* int_is_enabled($int): the line's ISER bit.
int_is_enabled == iser

\* int_is_active($int): the line's IABR bit.
int_is_active == iabr

\* What a method sees of the shared state at its first statement.
Snap == [singleton |-> singleton, iser |-> iser, iabr |-> iabr, flag |-> flag]

NoSnap == [singleton |-> None, iser |-> FALSE, iabr |-> FALSE, flag |-> FALSE]

\* A fresh activation record of method (or handler) `op`.
Frame(op, pc, arg) ==
    [op |-> op, pc |-> pc, arg |-> arg, enabled |-> FALSE, local |-> 0,
     cb |-> 0, nested |-> FALSE, raced |-> FALSE, e |-> NoSnap]

NoRet ==
    [op |-> "none", ok |-> FALSE, data |-> None, arg |-> 0, cb |-> 0,
     nested |-> FALSE, raced |-> FALSE, e |-> NoSnap]

Top == stack[Len(stack)]

Below == SubSeq(stack, 1, Len(stack) - 1)

\* Frames of modify_app_context on the stack: each holds `&mut self`.
AppFrames == {i \in 1 .. Len(stack) : stack[i].op = "modify_app_context"}

\* Frames whose closure is running: the holders of `&mut $dat_ty`.
Holders == {i \in 1 .. Len(stack) : stack[i].pc = "in_cb"}

\* User code runs: thread mode at top level, the handler's body, or a closure.
UserCtx ==
    /\ ~panicked
    /\ IF Len(stack) = 0 THEN TRUE ELSE Top.op = "isr" \/ Top.pc = "in_cb"

Running(op, pc) ==
    /\ ~panicked
    /\ Len(stack) > 0
    /\ Top.op = op
    /\ Top.pc = pc

SetTop(f) == stack' = [stack EXCEPT ![Len(stack)] = f]

\* The caller's stack after `op` returned: a caller of modify_int_context
\* remembers that it made the call.
Resume(s, op) ==
    IF Len(s) > 0 /\ op = "modify_int_context"
    THEN [s EXCEPT ![Len(s)].nested = TRUE]
    ELSE s

\* The value the history of results so far predicts.
Predict(f, ok) ==
    IF ~ok THEN expected
    ELSE IF f.op = "set_initial" THEN Some(f.arg)
    ELSE IF expected = None THEN None
    ELSE Some(Apply(f.arg, expected[1]))

\* `return`: pop the frame and hand the result to the caller.
Return(f, ok, data) ==
    /\ stack' = Resume(Below, f.op)
    /\ ret' = [op |-> f.op, ok |-> ok, data |-> data, arg |-> f.arg,
               cb |-> f.cb, nested |-> f.nested, raced |-> f.raced, e |-> f.e]
    /\ expected' = Predict(f, ok)

(* ---------------------------- set_initial ------------------------------ *)

\* Mutant of InitRejected: the enabled check is left out.
InitRejected_NoEnabled(en, fl) == fl

\* lib.rs:119  int_is_enabled($int) || flags::$NAME.load(SeqCst)
InitRejected(en, fl) == en \/ fl

\* Mutant of FlagAfterLoad: the flag is taken with swap(true), as
\* modify_int_context does, instead of being read.
FlagAfterLoad_Swap(fl) == TRUE

\* lib.rs:119  flags::$NAME.load(SeqCst) leaves the flag as it is.
FlagAfterLoad(fl) == fl

\* Mutant of StoreAllowed: the storage is overwritten when present.
StoreAllowed_Always(st) == TRUE

\* lib.rs:123  singletons::$NAME.is_none()
StoreAllowed(st) == st = None

call_set_initial(v) ==
    /\ UserCtx
    /\ Len(stack) < MaxDepth
    /\ stack' = Append(stack, Frame("set_initial", "guard", v))
    /\ UNCHANGED <<singleton, flag, iser, iabr, tokens, ret, expected, panicked>>

set_initial_guard ==
    /\ Running("set_initial", "guard")
    /\ LET f == [Top EXCEPT !.e = Snap]
       IN  IF InitRejected(int_is_enabled, flag)
           THEN Return(f, FALSE, Some(f.arg))
           ELSE SetTop([f EXCEPT !.pc = "store"]) /\ UNCHANGED <<ret, expected>>
    /\ flag' = FlagAfterLoad(flag)
    /\ UNCHANGED <<singleton, iser, iabr, tokens, panicked>>

set_initial_store ==
    /\ Running("set_initial", "store")
    /\ IF StoreAllowed(singleton)
       THEN /\ singleton' = Some(Top.arg)
            /\ tokens' = tokens + 1
            /\ Return(Top, TRUE, None)
       ELSE /\ Return(Top, FALSE, Some(Top.arg))
            /\ UNCHANGED <<singleton, tokens>>
    /\ UNCHANGED <<flag, iser, iabr, panicked>>

(* -------------------------- modify_app_context -------------------------- *)

\* Mutant of MaskLine: the line is not disabled for the closure.
MaskLine_NoDisable(en, cur) == cur

\* lib.rs:145-147  if enabled { disable_int($int); }
MaskLine(en, cur) == IF en THEN FALSE ELSE cur

\* Mutant of AppDenied: the active check is inverted.
AppDenied_Inverted(act, st) == ~act \/ st = None

\* Mutant of AppDenied: the active check is left out.
AppDenied_NoActive(act, st) == st = None

\* lib.rs:148  int_is_active($int) || singletons::$NAME.is_none()
AppDenied(act, st) == act \/ st = None

\* Mutant of RestoreLine: the line is enabled whatever `enabled` recorded.
RestoreLine_Always(en, cur) == TRUE

\* Mutant of RestoreLine: the line is left as the call made it.
RestoreLine_Never(en, cur) == cur

\* Mutant of RestoreLine: the line is put back to what `enabled` recorded.
RestoreLine_Exact(en, cur) == en

\* lib.rs:149-151 and 159-161  if enabled { enable_int($int); }
RestoreLine(en, cur) == IF en THEN TRUE ELSE cur

\* `&mut self`: the caller owns a token that no running call has borrowed.
call_modify_app_context(d) ==
    /\ UserCtx
    /\ Len(stack) < MaxDepth
    /\ tokens > Cardinality(AppFrames)
    /\ stack' = Append(stack, Frame("modify_app_context", "query", d))
    /\ UNCHANGED <<singleton, flag, iser, iabr, tokens, ret, expected, panicked>>

\* lib.rs:144  let enabled = int_is_enabled($int);
app_query ==
    /\ Running("modify_app_context", "query")
    /\ SetTop([Top EXCEPT !.e = Snap, !.enabled = int_is_enabled, !.pc = "mask"])
    /\ UNCHANGED <<singleton, flag, iser, iabr, tokens, ret, expected, panicked>>

app_mask ==
    /\ Running("modify_app_context", "mask")
    /\ iser' = MaskLine(Top.enabled, iser)
    /\ SetTop([Top EXCEPT !.pc = "check"])
    /\ UNCHANGED <<singleton, flag, iabr, tokens, ret, expected, panicked>>

\* lib.rs:148-153
app_check ==
    /\ Running("modify_app_context", "check")
    /\ IF AppDenied(int_is_active, singleton)
       THEN /\ iser' = RestoreLine(Top.enabled, iser)
            /\ Return(Top, FALSE, None)
       ELSE /\ SetTop([Top EXCEPT !.pc = "call"])
            /\ UNCHANGED <<iser, ret, expected>>
    /\ UNCHANGED <<singleton, flag, iabr, tokens, panicked>>

\* lib.rs:155-157  f(singletons::$NAME.as_mut().unwrap()): the closure starts.
app_call ==
    /\ Running("modify_app_context", "call")
    /\ IF singleton = None
       THEN panicked' = TRUE /\ UNCHANGED stack
       ELSE /\ SetTop([Top EXCEPT !.pc = "in_cb", !.local = singleton[1],
                                  !.cb = Top.cb + 1])
            /\ UNCHANGED panicked
    /\ UNCHANGED <<singleton, flag, iser, iabr, tokens, ret, expected>>

\* lib.rs:155-157  the closure ends: its result is in the storage.
app_cb_end ==
    /\ Running("modify_app_context", "in_cb")
    /\ singleton' = Some(Apply(Top.arg, Top.local))
    /\ SetTop([Top EXCEPT !.pc = "restore"])
    /\ UNCHANGED <<flag, iser, iabr, tokens, ret, expected, panicked>>

\* lib.rs:159-163
app_restore ==
    /\ Running("modify_app_context", "restore")
    /\ iser' = RestoreLine(Top.enabled, iser)
    /\ Return(Top, TRUE, None)
    /\ UNCHANGED <<singleton, flag, iabr, tokens, panicked>>

(* -------------------------- modify_int_context -------------------------- *)

\* Mutant of IntDenied: the is_none check is left out.
IntDenied_NoNone(act, st, fl) == ~act \/ fl

\* Mutant of IntDenied: the active check is left out.
IntDenied_NoActive(act, st, fl) == st = None \/ fl

\* Mutant of IntDenied: the result of swap(true) is ignored.
IntDenied_NoFlag(act, st, fl) == ~act \/ st = None

\* lib.rs:174  !int_is_active($int) || is_none() || flags::$NAME.swap(true)
IntDenied(act, st, fl) == ~act \/ st = None \/ fl

\* Mutant of FlagAfterGuard: swap(true) is evaluated whatever the other
\* checks say (`|` instead of `||`).
FlagAfterGuard_Eager(act, st, fl) == TRUE

\* Mutant of FlagAfterGuard: a refused call clears the flag on its way out.
FlagAfterGuard_ClearOnDeny(act, st, fl) ==
    IF ~act \/ st = None \/ fl THEN FALSE ELSE TRUE

\* lib.rs:174  the flag after the guard: `||` reaches swap(true) only when the
\* line is active and the storage is present.
FlagAfterGuard(act, st, fl) == IF ~act \/ st = None THEN fl ELSE TRUE

\* lib.rs:182  the flag after swap(false).
FlagAfterRelease(fl) == FALSE

call_modify_int_context(d) ==
    /\ UserCtx
    /\ Len(stack) < MaxDepth
    /\ stack' = Append(stack, Frame("modify_int_context", "guard", d))
    /\ UNCHANGED <<singleton, flag, iser, iabr, tokens, ret, expected, panicked>>

\* lib.rs:174-176
int_guard ==
    /\ Running("modify_int_context", "guard")
    /\ flag' = FlagAfterGuard(int_is_active, singleton, flag)
    /\ LET f == [Top EXCEPT !.e = Snap]
       IN  IF IntDenied(int_is_active, singleton, flag)
           THEN Return(f, FALSE, None)
           ELSE SetTop([f EXCEPT !.pc = "call"]) /\ UNCHANGED <<ret, expected>>
    /\ UNCHANGED <<singleton, iser, iabr, tokens, panicked>>

\* lib.rs:178-180  f(singletons::$NAME.as_mut().unwrap()): the closure starts.
int_call ==
    /\ Running("modify_int_context", "call")
    /\ IF singleton = None
       THEN panicked' = TRUE /\ UNCHANGED stack
       ELSE /\ SetTop([Top EXCEPT !.pc = "in_cb", !.local = singleton[1],
                                  !.cb = Top.cb + 1])
            /\ UNCHANGED panicked
    /\ UNCHANGED <<singleton, flag, iser, iabr, tokens, ret, expected>>

\* lib.rs:178-180  the closure ends: its result is in the storage.
int_cb_end ==
    /\ Running("modify_int_context", "in_cb")
    /\ singleton' = Some(Apply(Top.arg, Top.local))
    /\ SetTop([Top EXCEPT !.pc = "release"])
    /\ UNCHANGED <<flag, iser, iabr, tokens, ret, expected, panicked>>

\* lib.rs:182-183  assert!(flags::$NAME.swap(false, SeqCst)); Ok(())
int_release ==
    /\ Running("modify_int_context", "release")
    /\ flag' = FlagAfterRelease(flag)
    /\ IF flag
       THEN Return(Top, TRUE, None) /\ UNCHANGED panicked
       ELSE panicked' = TRUE /\ UNCHANGED <<stack, ret, expected>>
    /\ UNCHANGED <<singleton, iser, iabr, tokens>>

(* ------------------- the bound interrupt and user code ------------------ *)

\* The NVIC starts the bound handler: the line is enabled and not active.
isr_entry ==
    /\ ~panicked
    /\ iser
    /\ ~iabr
    /\ Len(stack) < MaxDepth
    /\ iabr' = TRUE
    /\ stack' = Append(stack, Frame("isr", "body", 0))
    /\ UNCHANGED <<singleton, flag, iser, tokens, ret, expected, panicked>>

\* The handler returns: the line is no longer active.
isr_exit ==
    /\ Running("isr", "body")
    /\ iabr' = FALSE
    /\ stack' = Below
    /\ UNCHANGED <<singleton, flag, iser, tokens, ret, expected, panicked>>

\* User code enables the line (NVIC ISER write); never while a
\* modify_app_context call is running.
user_enable ==
    /\ UserCtx
    /\ AppFrames = {}
    /\ ~iser
    /\ iser' = TRUE
    /\ UNCHANGED <<singleton, flag, iabr, tokens, stack, ret, expected, panicked>>

\* User code disables the line (NVIC ICER write); never while a
\* modify_app_context call is running.
user_disable ==
    /\ UserCtx
    /\ AppFrames = {}
    /\ iser
    /\ iser' = FALSE
    /\ UNCHANGED <<singleton, flag, iabr, tokens, stack, ret, expected, panicked>>

(* --------------------------- the specification -------------------------- *)

\* The statics of lib.rs:81 and lib.rs:90; the NVIC after reset.
Init ==
    /\ singleton = None
    /\ flag = FALSE
    /\ iser = FALSE
    /\ iabr = FALSE
    /\ tokens = 0
    /\ stack = << >>
    /\ ret = NoRet
    /\ expected = None
    /\ panicked = FALSE

Next ==
    \/ \E v \in Val : call_set_initial(v)
    \/ set_initial_guard
    \/ set_initial_store
    \/ \E d \in Deltas : call_modify_app_context(d)
    \/ app_query
    \/ app_mask
    \/ app_check
    \/ app_call
    \/ app_cb_end
    \/ app_restore
    \/ \E d \in Deltas : call_modify_int_context(d)
    \/ int_guard
    \/ int_call
    \/ int_cb_end
    \/ int_release
    \/ isr_entry
    \/ isr_exit
    \/ user_enable
    \/ user_disable

Spec == Init /\ [][Next]_vars

\* lib.rs:142-143  "theoretical race condition: if an interrupt enables this
\* interrupt": another interrupt's handler enables the line while a
\* modify_app_context call has read `enabled` and its closure has not ended.
\* Those calls are marked.
foreign_enable ==
    /\ ~panicked
    /\ \E i \in AppFrames : stack[i].pc \in {"mask", "check", "call", "in_cb"}
    /\ ~iser
    /\ iser' = TRUE
    /\ stack' = [i \in 1 .. Len(stack) |->
                    IF stack[i].op = "modify_app_context"
                           /\ stack[i].pc \in {"mask", "check", "call", "in_cb"}
                    THEN [stack[i] EXCEPT !.raced = TRUE]
                    ELSE stack[i]]
    /\ UNCHANGED <<singleton, flag, iabr, tokens, ret, expected, panicked>>

\* One value and one closure: set_initial(0) and `*x += 1`.
NextOne ==
    \/ call_set_initial(0)
    \/ set_initial_guard
    \/ set_initial_store
    \/ call_modify_app_context(1)
    \/ app_query
    \/ app_mask
    \/ app_check
    \/ app_call
    \/ app_cb_end
    \/ app_restore
    \/ call_modify_int_context(1)
    \/ int_guard
    \/ int_call
    \/ int_cb_end
    \/ int_release
    \/ isr_entry
    \/ isr_exit
    \/ user_enable
    \/ user_disable

\* The race needs no variety of values.
NextRace == NextOne \/ foreign_enable

\* The program with the other party of the race.
SpecRace == Init /\ [][NextRace]_vars

\* A statement of the running method, the end of a closure, or the return
\* of the handler.
Steps ==
    \/ set_initial_guard
    \/ set_initial_store
    \/ app_query
    \/ app_mask
    \/ app_check
    \/ app_call
    \/ app_cb_end
    \/ app_restore
    \/ int_guard
    \/ int_call
    \/ int_cb_end
    \/ int_release
    \/ isr_exit

\* The core keeps executing: the code at every depth of the stack gets to
\* run its next statement, closures and the handler return, and the handler
\* does not fire between two statements for ever.
Fairness == \A k \in 1 .. MaxDepth : SF_vars(Len(stack) = k /\ Steps)

\* The program on a core that keeps executing; termination needs no variety
\* of values.
SpecFair == Init /\ [][NextOne]_vars /\ Fairness

(* ------------------------------ the claims ------------------------------ *)

Frames == 1 .. Len(stack)

\* This step is the return of a call of method `op`.
Returns(op) ==
    IF Len(stack) = 0 THEN FALSE
    ELSE Top.op = op /\ Len(stack') = Len(stack) - 1

\* C1: at most one closure, of the application or of the handler, holds the
\* stored value at any time.
C1_MutualExclusion == Cardinality(Holders) <= 1

\* C1 witness: the handler's closure holds the value while an application
\* access, preempted after its query, is in flight.
C1_Witness ==
    \E i, j \in Frames :
        /\ i < j
        /\ stack[i].op = "modify_app_context"
        /\ stack[j].op = "modify_int_context"
        /\ stack[j].pc = "in_cb"

\* C2: once a set_initial has succeeded, every later set_initial(v2) fails,
\* hands v2 back and leaves the stored value alone.
C2_SecondInitFails ==
    [][(Returns("set_initial") /\ tokens > 0) =>
          /\ ~ret'.ok
          /\ ret'.data = Some(ret'.arg)
          /\ singleton' = singleton
          /\ tokens' = tokens]_vars

\* C2 witness: a set_initial(v2) that passed the line and flag checks was
\* refused for the present storage, whose value is not v2.
C2_Witness ==
    /\ ret.op = "set_initial"
    /\ ~ret.ok
    /\ ~ret.e.iser
    /\ ~ret.e.flag
    /\ ret.e.singleton # None
    /\ ret.data = Some(ret.arg)
    /\ singleton # Some(ret.arg)

\* C3: while no set_initial has succeeded, no access gets past its guard or
\* runs its closure, and every access that found the storage absent returned
\* Err without having run its closure.
C3_NoAccessBeforeInit ==
    /\ tokens = 0 =>
          \A i \in Frames :
              stack[i].op \in {"modify_app_context", "modify_int_context"} =>
                  /\ stack[i].pc \in {"query", "mask", "check", "guard"}
                  /\ stack[i].cb = 0
    /\ (ret.op \in {"modify_app_context", "modify_int_context"}
           /\ ret.e.singleton = None) =>
          ~ret.ok /\ ret.cb = 0

\* C3 witness: modify_int_context was refused with the line active and the
\* flag clear, so only for the absent storage.
C3_Witness ==
    /\ ret.op = "modify_int_context"
    /\ ~ret.ok
    /\ ret.e.singleton = None
    /\ ret.e.iabr
    /\ ~ret.e.flag

\* C4: modify_app_context entered with the line disabled and inactive returns
\* Ok, has run its closure once on the entry value, and leaves the line as it
\* found it.
C4_AppAccessIdleLine ==
    [][(Returns("modify_app_context") /\ ~ret'.e.iser /\ ~ret'.e.iabr
            /\ ret'.e.singleton # None) =>
          /\ ret'.ok
          /\ ret'.cb = 1
          /\ singleton' = Some(Apply(ret'.arg, ret'.e.singleton[1]))
          /\ iser' = ret'.e.iser]_vars

\* C4 witness: such a call with the closure x -> x + 1 has returned Ok.
C4_Witness ==
    /\ ret.op = "modify_app_context"
    /\ ret.ok
    /\ ret.cb = 1
    /\ ret.arg = 1
    /\ ~ret.e.iser
    /\ ~ret.e.iabr
    /\ ~iser

\* C5 as stated: modify_app_context entered with the line active returns Err,
\* runs no closure, leaves the value alone, and the line's enabled state
\* equals its entry state at every point of the call.
C5_NoLineChangeAtAnyPoint ==
    /\ [](\A i \in Frames :
              (stack[i].op = "modify_app_context" /\ stack[i].pc # "query"
                  /\ stack[i].e.iabr) => iser = stack[i].e.iser)
    /\ [][(Returns("modify_app_context") /\ ret'.e.iabr) =>
             /\ ~ret'.ok
             /\ ret'.cb = 0
             /\ singleton' = ret'.e.singleton
             /\ iser' = ret'.e.iser]_vars

\* C5 amended: modify_app_context entered with the line active returns Err,
\* has run no closure, leaves the value alone, and on return the line's
\* enabled state equals its entry state.
C5_DeniedWhenActive ==
    [][(Returns("modify_app_context") /\ ret'.e.iabr) =>
          /\ ~ret'.ok
          /\ ret'.cb = 0
          /\ singleton' = ret'.e.singleton
          /\ singleton' = singleton
          /\ iser' = ret'.e.iser]_vars

\* C5 witness: the call was made with the line active and enabled, was
\* refused, and the line is enabled after it.
C5_Witness ==
    /\ ret.op = "modify_app_context"
    /\ ~ret.ok
    /\ ret.e.iabr
    /\ ret.e.iser
    /\ ret.e.singleton # None
    /\ iser
    /\ Len(stack) > 0
    /\ Top.op = "isr"

\* C6: modify_int_context that finds the line inactive returns Err and never
\* runs its closure, whatever the storage, the flag and the enabled bit.
C6_DeniedWhenInactive ==
    /\ \A i \in Frames :
           (stack[i].op = "modify_int_context" /\ stack[i].pc # "guard") =>
               stack[i].e.iabr
    /\ (ret.op = "modify_int_context" /\ ~ret.e.iabr) =>
          ~ret.ok /\ ret.cb = 0

\* C6 witness: the closure of a running modify_app_context called
\* modify_int_context on the initialized item and was refused.
C6_Witness ==
    /\ Len(stack) > 0
    /\ Top.op = "modify_app_context"
    /\ Top.pc = "in_cb"
    /\ Top.nested
    /\ ret.op = "modify_int_context"
    /\ ~ret.ok
    /\ ~ret.e.iabr
    /\ ~ret.e.flag
    /\ ret.e.singleton # None

\* The closure of the modify_int_context frame i is running and j is a
\* modify_int_context called from inside it.
Reentrant(i, j) ==
    /\ i < j
    /\ stack[i].op = "modify_int_context"
    /\ stack[i].pc = "in_cb"
    /\ stack[j].op = "modify_int_context"

\* C7: a modify_int_context called from inside the closure of a
\* modify_int_context never gets past its guard and returns Err, changing
\* neither value nor flag; the outer call finds the flag set when it releases
\* it, returns Ok with its own closure's effect only, and leaves the flag
\* false.
C7_Reentrancy ==
    /\ [](\A i, j \in Frames :
              Reentrant(i, j) => stack[j].pc = "guard" /\ stack[j].cb = 0)
    /\ [](\A i \in Frames :
              (stack[i].op = "modify_int_context"
                  /\ stack[i].pc \in {"call", "in_cb", "release"}) =>
                      flag /\ ~panicked)
    /\ [][(Returns("modify_int_context")
              /\ \E i \in Frames : Reentrant(i, Len(stack))) =>
             /\ ~ret'.ok
             /\ ret'.cb = 0
             /\ singleton' = singleton
             /\ flag' = flag]_vars
    /\ [][(Returns("modify_int_context") /\ ret'.nested) =>
             /\ ret'.ok
             /\ ret'.cb = 1
             /\ singleton' = Some(Apply(ret'.arg, ret'.e.singleton[1]))
             /\ ~flag']_vars

\* C7 witness: a modify_int_context whose closure made a refused reentrant
\* call has returned Ok and the flag is false.
C7_Witness ==
    /\ ret.op = "modify_int_context"
    /\ ret.ok
    /\ ret.nested
    /\ ~flag
    /\ Len(stack) > 0
    /\ Top.op = "isr"

\* No call is between its closure's write and its return.
Settled == \A i \in Frames : stack[i].pc \notin {"restore", "release"}

C9_InitGuard ==
    [][Returns("set_initial") =>
          /\ ret'.ok <=> ~(ret'.e.iser \/ ret'.e.flag \/ ret'.e.singleton # None)
          /\ ~ret'.ok => /\ ret'.data = Some(ret'.arg)
                         /\ singleton' = singleton
                         /\ tokens' = tokens
          /\ ret'.ok => /\ singleton' = Some(ret'.arg)
                        /\ tokens' = tokens + 1]_vars

\* C9 witness: set_initial was refused with the line disabled while the flag
\* was set.
C9_Witness ==
    /\ ret.op = "set_initial"
    /\ ~ret.ok
    /\ ~ret.e.iser
    /\ ret.e.flag

\* C10: set_initial returns a token only if, at its guard, the line is
\* disabled and its handler is not active.
C10_InitOnlyWhenIdle ==
    (ret.op = "set_initial" /\ ret.ok) => (~ret.e.iser /\ ~ret.e.iabr)

\* C11: while the closure of modify_app_context runs, from its start to its
\* end, the line is disabled whatever `enabled` recorded, and no handler has
\* started on top of it.
C11_MaskedDuringClosure ==
    \A i \in Frames :
        (stack[i].op = "modify_app_context" /\ stack[i].pc = "in_cb") =>
            /\ ~iser
            /\ \A j \in Frames : j > i => stack[j].op # "isr"

\* C11 witness: the closure runs with the line disabled although the call
\* found it enabled.
C11_Witness ==
    \E i \in Frames :
        /\ stack[i].op = "modify_app_context"
        /\ stack[i].pc = "in_cb"
        /\ stack[i].enabled
        /\ stack[i].e.iser
        /\ ~iser

\* C12: with another party enabling the line after modify_app_context read
\* `enabled` and before its closure ended, the handler's closure can run
\* while the application's closure holds the value, which happens in no
\* other way; a call that recorded the line as disabled returns with the
\* line enabled.
C12_ResidualRace ==
    /\ [](Cardinality(Holders) >= 2 =>
              \E i \in Frames :
                  /\ stack[i].op = "modify_app_context"
                  /\ stack[i].pc = "in_cb"
                  /\ stack[i].raced)
    /\ [][(Returns("modify_app_context") /\ ret'.raced /\ ~ret'.e.iser) =>
             /\ iser'
             /\ ~ret'.e.iabr => ret'.ok]_vars

\* C12 witness: the handler's closure and the closure of an application
\* access that had recorded the line as disabled hold the value together.
C12_Witness ==
    \E i, j \in Frames :
        /\ i < j
        /\ stack[i].op = "modify_app_context"
        /\ stack[i].pc = "in_cb"
        /\ ~stack[i].enabled
        /\ stack[i].raced
        /\ stack[j].op = "modify_int_context"
        /\ stack[j].pc = "in_cb"

\* C13: the storage goes from absent to present only in the step in which a
\* set_initial returns Ok, never goes back to absent, and at most one
\* set_initial succeeds: at most one token exists, and it exists exactly when
\* the storage is present.
C13_InitOnce ==
    /\ [](tokens <= 1 /\ (tokens = 1 <=> singleton # None))
    /\ [][singleton # None => singleton' # None]_vars
    /\ [][(singleton = None /\ singleton' # None) =>
             /\ Returns("set_initial")
             /\ ret'.ok
             /\ tokens' = tokens + 1]_vars

\* C13 witness: with the one token issued, a set_initial made from the
\* handler, which had disabled its line, was refused.
C13_Witness ==
    /\ tokens = 1
    /\ singleton # None
    /\ ret.op = "set_initial"
    /\ ~ret.ok
    /\ ret.e.iabr
    /\ ~ret.e.iser
    /\ ~ret.e.flag

\* A modify_int_context is between its swap(true) and its swap(false).
IntInProgress ==
    \E i \in Frames :
        /\ stack[i].op = "modify_int_context"
        /\ stack[i].pc \in {"call", "in_cb", "release"}

Masked(i, b) ==
    /\ stack[i].op = "modify_app_context"
    /\ stack[i].pc \in {"check", "call", "in_cb", "restore"}
    /\ stack[i].enabled = b

\* C15: a modify_app_context that found the line enabled has it disabled
\* from its mask step on and returns, Ok or Err, with the line enabled again;
\* one that found it disabled never enables it; the line on return is what
\* the call recorded, and a line the call masked is eventually unmasked.
C15_LineRestored ==
    /\ [](\A i \in Frames : (Masked(i, TRUE) \/ Masked(i, FALSE)) => ~iser)
    /\ [](\A i \in Frames :
              (stack[i].op = "modify_app_context" /\ stack[i].pc # "query") =>
                  stack[i].enabled = stack[i].e.iser)
    /\ [][Returns("modify_app_context") => iser' = ret'.e.iser]_vars
    /\ (\E i \in Frames : Masked(i, TRUE)) ~> (iser /\ AppFrames = {})

\* C15 witness: a call that found the line enabled ran its closure and
\* returned Ok with the line enabled.
C15_Witness ==
    /\ ret.op = "modify_app_context"
    /\ ret.ok
    /\ ret.cb = 1
    /\ ret.e.iser
    /\ iser
    /\ AppFrames = {}

\* This step is a statement of the running method `op`.
StepOf(op) ==
    IF Len(stack) = 0 THEN FALSE
    ELSE /\ Top.op = op
         /\ Len(stack') <= Len(stack)
         /\ stack' # stack

\* C16: no statement of set_initial changes the line's enabled or active bit
\* or the flag; the storage is written only by the statement that returns
\* Ok, once, from absent to Some(value), and a set_initial that returns Err
\* leaves it as it was.
C16_InitFrame ==
    [][StepOf("set_initial") =>
          /\ iser' = iser
          /\ iabr' = iabr
          /\ flag' = flag
          /\ singleton' # singleton =>
                 /\ Returns("set_initial")
                 /\ ret'.ok
                 /\ singleton = None
                 /\ singleton' = Some(ret'.arg)
          /\ (Returns("set_initial") /\ ~ret'.ok) => singleton' = singleton
          /\ (Returns("set_initial") /\ ret'.ok) => singleton' # singleton]_vars

\* C16 witness: a set_initial made while the flag was set and the line was
\* active and disabled has returned Err, and flag and line are as they were.
C16_Witness ==
    /\ ret.op = "set_initial"
    /\ ~ret.ok
    /\ ret.e.flag
    /\ ret.e.iabr
    /\ ~ret.e.iser
    /\ flag
    /\ iabr
    /\ ~iser
    /\ singleton = ret.e.singleton

\* C17: the assert of modify_int_context never fails: nothing has panicked,
\* and every modify_int_context that is about to release the flag finds it
\* set.
C17_ReleaseFindsFlag ==
    /\ ~panicked
    /\ \A i \in Frames :
           (stack[i].op = "modify_int_context" /\ stack[i].pc = "release") =>
               flag

\* C17 witness: a modify_int_context whose closure made a refused reentrant
\* call is about to release the flag, which is still set.
C17_Witness ==
    /\ Len(stack) > 0
    /\ Top.op = "modify_int_context"
    /\ Top.pc = "release"
    /\ Top.nested
    /\ flag
    /\ ret.op = "modify_int_context"
    /\ ~ret.ok
    /\ ret.e.flag

\* C18: a modify_int_context that returns Err leaves the stored value, the
\* flag and the line's enabled bit as they were when it was entered.
C18_DeniedIntFrame ==
    [][(Returns("modify_int_context") /\ ~ret'.ok) =>
          /\ singleton' = singleton
          /\ singleton' = ret'.e.singleton
          /\ flag' = flag
          /\ flag' = ret'.e.flag
          /\ iser' = iser
          /\ iser' = ret'.e.iser
          /\ ret'.cb = 0]_vars

\* C18 witness: a modify_int_context refused for the inactive line and the
\* absent storage left the flag clear, and the set_initial made next
\* succeeded.
C18_Witness ==
    /\ ret.op = "set_initial"
    /\ ret.ok
    /\ ~flag
    /\ Len(stack) > 0
    /\ Top.op = "isr"
    /\ Top.nested

\* C19: while a token exists the storage is present; a modify_app_context
\* never reaches its check with the storage absent, and it returns Err
\* exactly when its check finds the line active.
C19_TokenMeansPresent ==
    /\ [](tokens > 0 => singleton # None)
    /\ [](\A i \in Frames :
              stack[i].op = "modify_app_context" => singleton # None)
    /\ [][Returns("modify_app_context") => (~ret'.ok <=> iabr)]_vars

\* C19 witness: a token holder's modify_app_context was refused with the
\* storage present, the line active and the line disabled.
C19_Witness ==
    /\ ret.op = "modify_app_context"
    /\ ~ret.ok
    /\ ret.e.iabr
    /\ ~ret.e.iser
    /\ ret.e.singleton # None
    /\ tokens = 1

\* C20: every call of set_initial, modify_app_context and modify_int_context,
\* and the handler around it, returns: the frame at every depth of the stack
\* is eventually popped, whatever the line and the flag are.
C20_EveryCallReturns ==
    \A k \in 1 .. MaxDepth : (Len(stack) >= k) ~> (Len(stack) < k)

\* C20 witness: everything has returned after a modify_app_context whose
\* closure made a modify_int_context call.
C20_Witness ==
    /\ Len(stack) = 0
    /\ ret.op = "modify_app_context"
    /\ ret.ok
    /\ ret.nested
    /\ ret.cb = 1

====
